---- MODULE Spec2Model ----
(***************************************************************************)
(* Model of sales_dashboard.py: the synthetic sales data generator         *)
(* (generate_enhanced_sales_data), the sidebar filters, the filter query   *)
(* and the aggregations of the five tabs.                                  *)
(*                                                                         *)
(* Real numbers are fixed-point integers with two decimals (Scale).  A     *)
(* float that may be missing or infinite is a record [k, v] with k one of  *)
(* "num", "nan", "inf".  NumPy's global generator is a 16-bit linear       *)
(* congruential generator: what matters to the program is that seeding     *)
(* sets its state and that every draw advances it.  The generator draws    *)
(* 1..MaxTx transactions a day where the source draws 5..24, and is called *)
(* on date ranges of one or two days around a year end and a quarter end.  *)
(* Series.nlargest is taken as pandas documents it (keep='first').  A      *)
(* multiselect whose options changed since the last run is a new widget    *)
(* for Streamlit and takes its default.                                    *)
(***************************************************************************)
EXTENDS Integers, Sequences, FiniteSets, TLC

(* ------------------------------ bounds --------------------------------- *)
\* seeds 0..MaxSeed are tried
MaxSeed == 3
\* transactions per day are 1..MaxTx (the source draws 5..24)
MaxTx == 2
\* a uniform draw takes one of UniformRes equally spaced values of [low, high)
UniformRes == 4
\* widget changes made by the user in one session
MaxInteractions == 2

(* --------------------------- fixed point ------------------------------- *)
Scale == 100

Mul(a, b) == (a * b) \div Scale
Div(a, b) == (a * Scale) \div b
Max(a, b) == IF a >= b THEN a ELSE b
Min(a, b) == IF a <= b THEN a ELSE b

Num(x) == [k |-> "num", v |-> x]
NaN == [k |-> "nan", v |-> 0]
PosInf == [k |-> "inf", v |-> 1]
NegInf == [k |-> "inf", v |-> -1]

IsNum(f) == f.k = "num"
IsNaN(f) == f.k = "nan"
IsInf(f) == f.k = "inf"

\* float division as NumPy does it: x/0 is +-inf, 0/0 and anything with NaN is NaN
FDiv(a, b) ==
    IF IsNaN(a) \/ IsNaN(b) THEN NaN
    ELSE IF IsInf(a) \/ IsInf(b) THEN NaN
    ELSE IF b.v = 0 THEN (IF a.v = 0 THEN NaN ELSE IF a.v > 0 THEN PosInf ELSE NegInf)
    ELSE Num(Div(a.v, b.v))

\* (ratio - 1) * 100
PctOverOne(r) == IF IsNum(r) THEN Num((r.v - Scale) * 100) ELSE r

\* ratio * 100
Pct(r) == IF IsNum(r) THEN Num(r.v * 100) ELSE r

\* df.replace([np.inf, -np.inf], np.nan)
ReplaceInf(f) == IF IsInf(f) THEN NaN ELSE f

\* truth value of a Python float: only 0.0 is false (NaN is true)
Truthy(f) == ~(IsNum(f) /\ f.v = 0)

(* ------------------------ the global generator ------------------------- *)
RngMod == 65536

\* a seeding that leaves the state as it was
np_random_seed_skipped(g, seed) == g

\* np.random.seed(seed): the state no longer depends on the state g before
np_random_seed(g, seed) == (seed * 7919 + 3364) % RngMod

\* one draw advances the state
NextState(s) == (s * 25173 + 13849) % RngMod

\* an integer of 0..n-1 from the state
Below(s, n) == (s * n) \div RngMod

\* np.random.randint(low, high): low <= value < high
randint(s, low, high) == low + Below(s, high - low)

\* np.random.choice(list)
choice(s, list) == list[1 + Below(s, Len(list))]

\* np.random.uniform(low, high): low <= value < high
uniform(s, low, high) == low + ((high - low) * Below(s, UniformRes)) \div UniformRes

(* ------------------------------ dates ---------------------------------- *)
D(y, m, d) == [y |-> y, m |-> m, d |-> d]

IsLeap(y) == (y % 4 = 0 /\ y % 100 # 0) \/ y % 400 = 0

DaysInMonth(y, m) ==
    IF m = 2 THEN (IF IsLeap(y) THEN 29 ELSE 28)
    ELSE IF m \in {4, 6, 9, 11} THEN 30 ELSE 31

NextDay(dt) ==
    IF dt.d < DaysInMonth(dt.y, dt.m) THEN D(dt.y, dt.m, dt.d + 1)
    ELSE IF dt.m < 12 THEN D(dt.y, dt.m + 1, 1)
    ELSE D(dt.y + 1, 1, 1)

DateLE(a, b) ==
    \/ a.y < b.y
    \/ a.y = b.y /\ a.m < b.m
    \/ a.y = b.y /\ a.m = b.m /\ a.d <= b.d

\* the (start, end) pairs the generator is called with
DateRanges ==
    << <<D(2022, 12, 31), D(2022, 12, 31)>>,
       <<D(2022, 12, 31), D(2023, 1, 1)>>,
       <<D(2022, 9, 30), D(2022, 10, 1)>> >>

Seeds == 0..MaxSeed

(* ---------------------------- generator -------------------------------- *)
regions == <<"North", "South", "East", "West", "Central">>

categories == <<"Electronics", "Apparel", "Home Goods", "Groceries">>

product_categories_subs ==
    [c \in {"Electronics", "Apparel", "Home Goods", "Groceries"} |->
        CASE c = "Electronics" -> <<"Smartphones", "Laptops", "Accessories">>
          [] c = "Apparel" -> <<"Men's Clothing", "Women's Clothing", "Footwear">>
          [] c = "Home Goods" -> <<"Furniture", "Kitchenware", "Decor">>
          [] c = "Groceries" -> <<"Fresh Produce", "Pantry Staples", "Beverages">>]

salespersons == <<"Alice", "Bob", "Charlie", "David", "Eve", "Frank", "Grace", "Henry">>

region_factor ==
    [r \in {"North", "South", "East", "West", "Central"} |->
        CASE r = "North" -> 100 [] r = "South" -> 90 [] r = "East" -> 110
          [] r = "West" -> 95 [] r = "Central" -> 105]

cat_factor ==
    [c \in {"Electronics", "Apparel", "Home Goods", "Groceries"} |->
        CASE c = "Electronics" -> 130 [] c = "Apparel" -> 80
          [] c = "Home Goods" -> 100 [] c = "Groceries" -> 70]

\* 1 + sin((month - 1) * 2 pi / 12) * 0.15, to two decimals
seasonality == <<100, 107, 112, 115, 112, 107, 100, 92, 87, 85, 87, 92>>

\* 1 + (year - start year) * 0.08
year_factor(dt, start) == Scale + (dt.y - start.y) * 8

\* int(revenue / price), not floored at 1
units_sold_plain(revenue, price) == revenue \div price

\* max(1, int(revenue / price))
units_sold(revenue, price) == Max(1, revenue \div price)

\* date_val.year >= start_date.year
HasPrevYear_ge(dt, start) == dt.y >= start.y

\* date_val.year > start_date.year
HasPrevYear(dt, start) == dt.y > start.y

\* the body of the inner loop: one transaction of day dt, drawn from state s
GenTx(dt, start, s) ==
    LET s1 == NextState(s)
        s2 == NextState(s1)
        s3 == NextState(s2)
        s4 == NextState(s3)
        s5 == NextState(s4)
        s6 == NextState(s5)
        s7 == NextState(s6)
        s8 == NextState(s7)
        s9 == NextState(s8)
        s10 == NextState(s9)
        s11 == NextState(s10)
        region == choice(s1, regions)
        category == choice(s2, categories)
        sub_category == choice(s3, product_categories_subs[category])
        salesperson == choice(s4, salespersons)
        yf == year_factor(dt, start)
        base == Mul(Mul(uniform(s5, 20 * Scale, 300 * Scale), seasonality[dt.m]), yf)
        sub_cat_factor == uniform(s6, 80, 120)
        revenue == Mul(Mul(Mul(Mul(base, region_factor[region]), cat_factor[category]),
                           sub_cat_factor), uniform(s7, 90, 110))
        units == units_sold(revenue, uniform(s8, 10 * Scale, 100 * Scale))
        target_revenue == Mul(revenue, uniform(s9, 85, 110))
        cogs == Mul(revenue, uniform(s10, 40, 70))
        prev == IF HasPrevYear(dt, start)
                THEN Num(Div(revenue, Mul(yf, uniform(s11, 95, 105))))
                ELSE NaN
    IN [rec |-> [Date |-> dt, Region |-> region, Category |-> category,
                 SubCategory |-> sub_category, Salesperson |-> salesperson,
                 Revenue |-> revenue, UnitsSold |-> units,
                 TargetRevenue |-> target_revenue, COGS |-> cogs,
                 Profit |-> revenue - cogs, PrevYearRevenue |-> prev],
        s |-> IF HasPrevYear(dt, start) THEN s11 ELSE s10]

RECURSIVE GenDay(_, _, _, _, _)
\* for _ in range(n): append a transaction
GenDay(dt, start, n, s, acc) ==
    IF n = 0 THEN [data |-> acc, s |-> s]
    ELSE LET t == GenTx(dt, start, s)
         IN GenDay(dt, start, n - 1, t.s, Append(acc, t.rec))

RECURSIVE GenRange(_, _, _, _, _)
\* for date_val in date_range
GenRange(dt, start, end, s, acc) ==
    IF ~DateLE(dt, end) THEN [data |-> acc, s |-> s]
    ELSE LET s1 == NextState(s)
             num_transactions_today == randint(s1, 1, MaxTx + 1)
             day == GenDay(dt, start, num_transactions_today, s1, acc)
         IN GenRange(NextDay(dt), start, end, day.s, day.data)

\* the columns added after the loop
Derive(r, i) ==
    r @@
    [Index |-> i,
     Year |-> r.Date.y,
     Quarter |-> <<r.Date.y, 1 + (r.Date.m - 1) \div 3>>,
     YearMonth |-> <<r.Date.y, r.Date.m>>,
     RevVsTarget |-> ReplaceInf(PctOverOne(FDiv(Num(r.Revenue), Num(r.TargetRevenue)))),
     YoYGrowth |-> ReplaceInf(PctOverOne(FDiv(Num(r.Revenue), r.PrevYearRevenue))),
     ProfitMargin |-> ReplaceInf(Pct(FDiv(Num(r.Profit), Num(r.Revenue))))]

\* a call of the function with the global generator in state g: the data frame
\* returned and the state the generator is left in
generate_enhanced_sales_data(start, end, seed, g) ==
    LET run == GenRange(start, start, end, np_random_seed(g, seed), <<>>)
    IN [df |-> [i \in 1..Len(run.data) |-> Derive(run.data[i], i)], s |-> run.s]

(* ------------------------------ state ---------------------------------- *)
VARIABLES
    rng,               \* state of NumPy's global generator
    results,           \* generator alone: what the latest call with each argument tuple returned
    calls,             \* generator alone: number of calls made with each argument tuple
    ncalls,            \* generator alone: number of calls made
    ndraws,            \* generator alone: number of other draws from the global generator
    pc,                \* position of the script run
    df_orig,           \* the full data frame
    selected,          \* the values of the six sidebar multiselects
    all_quarters,      \* options of the quarter multiselect
    sub_cat_options,   \* options of the sub-category multiselect
    df_filtered,       \* the filtered copy
    filtered_is_orig,  \* df_filtered is the very object df_orig
    warning,           \* the "No data available" warning is shown
    steps,             \* the steps this run has executed, in order
    kpi,               \* the KPI figures of the overview tab
    yoy_region_df,     \* regional tab: YoY growth by region
    region_target_perf, \* regional tab: revenue vs target by region
    subcat_revenue,    \* product tab: top sub-categories by revenue
    subcat_profit,     \* product tab: top sub-categories by profit
    sales_revenue,     \* salesperson tab: top salespersons by revenue
    sales_profit,      \* salesperson tab: top salespersons by profit
    df_display,        \* detailed data tab: the table shown
    interactions       \* widget changes made so far

genvars == <<rng, results, calls, ncalls, ndraws>>

outvars == <<kpi, yoy_region_df, region_target_perf, subcat_revenue, subcat_profit,
             sales_revenue, sales_profit, df_display>>

appvars == <<pc, df_orig, selected, all_quarters, sub_cat_options, df_filtered,
             filtered_is_orig,
             warning, steps, interactions>>

vars == <<genvars, appvars, outvars>>

(* --------------------------- column helpers ---------------------------- *)
RECURSIVE SumInt(_, _)
\* Series.sum() of an integer-valued column
SumInt(df, col) ==
    IF df = <<>> THEN 0 ELSE df[1][col] + SumInt(Tail(df), col)

RECURSIVE SumSkipNa(_, _)
\* Series.sum(skipna=True) of a column that may hold NaN: NaN counts as 0
SumSkipNa(df, col) ==
    IF df = <<>> THEN 0
    ELSE (IF IsNum(df[1][col]) THEN df[1][col].v ELSE 0) + SumSkipNa(Tail(df), col)

RECURSIVE CountNum(_, _)
CountNum(df, col) ==
    IF df = <<>> THEN 0
    ELSE (IF IsNum(df[1][col]) THEN 1 ELSE 0) + CountNum(Tail(df), col)

\* Series.mean(): NaN skipped, NaN for no value
MeanSkipNa(df, col) ==
    IF CountNum(df, col) = 0 THEN NaN
    ELSE Num(SumSkipNa(df, col) \div CountNum(df, col))

\* Series.unique() as a set
Unique(df, col) == { df[i][col] : i \in 1..Len(df) }

\* df[df[col].isin(values)]
IsIn(df, col, values) == SelectSeq(df, LAMBDA r : r[col] \in values)

\* the order sorted() and groupby() give the keys
RegionOrder == <<"Central", "East", "North", "South", "West">>

CategoryOrder == <<"Apparel", "Electronics", "Groceries", "Home Goods">>

SubCategoryOrder ==
    <<"Accessories", "Beverages", "Decor", "Footwear", "Fresh Produce", "Furniture",
      "Kitchenware", "Laptops", "Men's Clothing", "Pantry Staples", "Smartphones",
      "Women's Clothing">>

SalespersonOrder == <<"Alice", "Bob", "Charlie", "David", "Eve", "Frank", "Grace", "Henry">>

\* df.groupby(col): the keys present, in sorted order
GroupKeys(df, col, order) == SelectSeq(order, LAMBDA key : key \in Unique(df, col))

\* df.groupby(col)[val].sum(): one row per key, in key order
GroupSum(df, col, order, val) ==
    LET keys == GroupKeys(df, col, order)
    IN [i \in 1..Len(keys) |->
          [key |-> keys[i], value |-> SumInt(IsIn(df, col, {keys[i]}), val)]]

RECURSIVE InsertDesc(_, _)
\* x goes after every row whose value is at least its own
InsertDesc(sorted, x) ==
    IF sorted = <<>> THEN <<x>>
    ELSE IF sorted[1].value >= x.value THEN <<sorted[1]>> \o InsertDesc(Tail(sorted), x)
    ELSE <<x>> \o sorted

RECURSIVE InsertDescUnstable(_, _)
\* x goes before the rows whose value equals its own
InsertDescUnstable(sorted, x) ==
    IF sorted = <<>> THEN <<x>>
    ELSE IF sorted[1].value > x.value
         THEN <<sorted[1]>> \o InsertDescUnstable(Tail(sorted), x)
    ELSE <<x>> \o sorted

RECURSIVE SortDescFrom(_, _)
SortDescFrom(series, acc) ==
    IF series = <<>> THEN acc
    ELSE SortDescFrom(Tail(series), InsertDesc(acc, series[1]))

RECURSIVE SortDescFromUnstable(_, _)
SortDescFromUnstable(series, acc) ==
    IF series = <<>> THEN acc
    ELSE SortDescFromUnstable(Tail(series), InsertDescUnstable(acc, series[1]))

\* the n largest values in descending order, equal values in reverse order
nlargest_unstable(series, n) ==
    SubSeq(SortDescFromUnstable(series, <<>>), 1, Min(n, Len(series)))

\* Series.nlargest(n), keep='first': the n largest values in descending order,
\* equal values in their order of appearance
nlargest(series, n) == SubSeq(SortDescFrom(series, <<>>), 1, Min(n, Len(series)))

top_n_subcategories == 15

top_n_salespersons == 10

(* ----------------------------- sidebar --------------------------------- *)
Dims == {"years", "quarters", "regions", "categories", "sub_categories", "salespersons"}

\* the column each query part names, with the sub-category part naming the
\* category column
QueryColumnMixedUp(dim) ==
    CASE dim = "years" -> "Year"
      [] dim = "quarters" -> "Quarter"
      [] dim = "regions" -> "Region"
      [] dim = "categories" -> "Category"
      [] dim = "sub_categories" -> "Category"
      [] dim = "salespersons" -> "Salesperson"

\* the column each query part names
QueryColumn(dim) ==
    CASE dim = "years" -> "Year"
      [] dim = "quarters" -> "Quarter"
      [] dim = "regions" -> "Region"
      [] dim = "categories" -> "Category"
      [] dim = "sub_categories" -> "SubCategory"
      [] dim = "salespersons" -> "Salesperson"

\* sorted(df_orig[df_orig['Year'].isin(selected_years)]['Quarter'].unique())
QuarterOptions(df, years) == Unique(IsIn(df, "Year", years), "Quarter")

\* the sub-categories of every category, selected or not
SubCatOptionsAll(df, cats) == Unique(df, "SubCategory")

\* sorted(df_orig[df_orig['Product Category'].isin(selected_categories)]['Sub-Category'].unique())
SubCatOptions(df, cats) == Unique(IsIn(df, "Category", cats), "SubCategory")

\* the default of each multiselect on the first run: all of its options
Defaults(df) ==
    LET years == Unique(df, "Year")
        cats == Unique(df, "Category")
    IN [years |-> years,
        quarters |-> QuarterOptions(df, years),
        regions |-> Unique(df, "Region"),
        categories |-> cats,
        sub_categories |-> SubCatOptions(df, cats),
        salespersons |-> Unique(df, "Salesperson")]

\* the options of each multiselect in the current run
Options(dim) ==
    CASE dim = "years" -> Unique(df_orig, "Year")
      [] dim = "quarters" -> all_quarters
      [] dim = "regions" -> Unique(df_orig, "Region")
      [] dim = "categories" -> Unique(df_orig, "Category")
      [] dim = "sub_categories" -> sub_cat_options
      [] dim = "salespersons" -> Unique(df_orig, "Salesperson")

(* ------------------------------ filter --------------------------------- *)
\* one query part per selection, empty or not
query_parts_unguarded(sel) == Dims

\* one query part per selection that is not empty
query_parts(sel) == { dim \in Dims : sel[dim] # {} }

\* df_orig.query(" and ".join(query_parts)).copy(), or df_orig.copy()
Query(df, sel) ==
    LET parts == query_parts(sel)
    IN IF parts # {}
       THEN SelectSeq(df, LAMBDA r : \A dim \in parts : r[QueryColumn(dim)] \in sel[dim])
       ELSE df

\* a frame handed on as it is: the same object under another name
SameFrame(frame) == [rows |-> frame, same |-> TRUE]

\* frame.copy(): the same records in a new object
CopyFrame(frame) == [rows |-> frame, same |-> FALSE]

(* --------------------------- aggregations ------------------------------ *)
\* the KPI block of the overview tab
Kpis(df) ==
    LET total_revenue == Num(SumInt(df, "Revenue"))
        total_target == Num(SumInt(df, "TargetRevenue"))
        total_prev_year_revenue == Num(SumSkipNa(df, "PrevYearRevenue"))
    IN [total_revenue |-> total_revenue,
        total_target |-> total_target,
        total_profit |-> Num(SumInt(df, "Profit")),
        total_prev_year_revenue |-> total_prev_year_revenue,
        avg_profit_margin |-> IF df # <<>> THEN MeanSkipNa(df, "ProfitMargin") ELSE Num(0),
        revenue_vs_target_perc |->
            IF Truthy(total_target)
            THEN PctOverOne(FDiv(total_revenue, total_target)) ELSE Num(0),
        yoy_growth_perc |->
            IF Truthy(total_prev_year_revenue)
            THEN PctOverOne(FDiv(total_revenue, total_prev_year_revenue)) ELSE Num(0)]

\* Series.sum() of a group's column: a missing value counts as 0
GroupColumnSum(group, col) ==
    Num(IF col = "PrevYearRevenue" THEN SumSkipNa(group, col) ELSE SumInt(group, col))

\* the per-record percentage column of a denominator column
PctColumn(dencol) == IF dencol = "PrevYearRevenue" THEN "YoYGrowth" ELSE "RevVsTarget"

\* mean of the per-record percentage column of a group
RatioOfMeans(group, dencol) == MeanSkipNa(group, PctColumn(dencol))

\* (sum of Revenue / sum of the denominator column - 1) * 100 of a group
RatioOfSums(group, dencol) ==
    PctOverOne(FDiv(GroupColumnSum(group, "Revenue"), GroupColumnSum(group, dencol)))

\* a frame whose infinities are left in place
KeepInf(f) == f

\* frame.replace([np.inf, -np.inf], np.nan, inplace=True)
FrameReplaceInf(f) == ReplaceInf(f)

\* a per-region ratio frame: the group sums, the ratio column, replace, dropna
RegionRatio(df, dencol) ==
    LET keys == GroupKeys(df, "Region", RegionOrder)
        rows == [i \in 1..Len(keys) |->
                   LET group == IsIn(df, "Region", {keys[i]})
                   IN [Region |-> keys[i],
                       Numerator |-> FrameReplaceInf(GroupColumnSum(group, "Revenue")),
                       Denominator |-> FrameReplaceInf(GroupColumnSum(group, dencol)),
                       Pct |-> FrameReplaceInf(RatioOfSums(group, dencol))]]
    IN SelectSeq(rows, LAMBDA row : ~IsNaN(row.Pct))

display_columns ==
    {"Date", "Year", "Quarter", "Region", "Category", "SubCategory", "Salesperson",
     "Revenue", "UnitsSold", "TargetRevenue", "COGS", "Profit",
     "RevVsTarget", "YoYGrowth", "ProfitMargin"}

(* ------------------------------ script --------------------------------- *)
NotRun == <<>>

NoKpi == [total_revenue |-> NaN]

ClearedOutputs ==
    /\ kpi' = NoKpi
    /\ yoy_region_df' = NotRun
    /\ region_target_perf' = NotRun
    /\ subcat_revenue' = NotRun
    /\ subcat_profit' = NotRun
    /\ sales_revenue' = NotRun
    /\ sales_profit' = NotRun
    /\ df_display' = NotRun

IdleApp ==
    /\ df_orig = <<>>
    /\ selected = [dim \in Dims |-> {}]
    /\ all_quarters = {}
    /\ sub_cat_options = {}
    /\ df_filtered = <<>>
    /\ filtered_is_orig = FALSE
    /\ warning = FALSE
    /\ steps = <<>>
    /\ interactions = 0
    /\ kpi = NoKpi
    /\ yoy_region_df = NotRun
    /\ region_target_perf = NotRun
    /\ subcat_revenue = NotRun
    /\ subcat_profit = NotRun
    /\ sales_revenue = NotRun
    /\ sales_profit = NotRun
    /\ df_display = NotRun

\* an argument tuple: the number of a date range and a seed
Keys == (1..Len(DateRanges)) \X Seeds

StartOf(k) == DateRanges[k[1]][1]

EndOf(k) == DateRanges[k[1]][2]

None == <<>>

Init ==
    /\ rng = 0
    /\ results = [k \in Keys |-> None]
    /\ calls = [k \in Keys |-> 0]
    /\ ncalls = 0
    /\ ndraws = 0
    /\ pc = "load"
    /\ IdleApp

\* df_orig = generate_enhanced_sales_data(); the widgets have no value yet, so the
\* first run gives each its default, all of its options
LoadData ==
    /\ pc = "load"
    /\ \E k \in Keys :
         LET out == generate_enhanced_sales_data(StartOf(k), EndOf(k), k[2], rng)
         IN /\ df_orig' = out.df
            /\ rng' = out.s
            /\ selected' = Defaults(out.df)
            /\ all_quarters' = Defaults(out.df).quarters
            /\ sub_cat_options' = Defaults(out.df).sub_categories
    /\ pc' = "sidebar"
    /\ UNCHANGED <<results, calls, ncalls, ndraws, df_filtered, filtered_is_orig, warning, steps, interactions, outvars>>

\* the six multiselects: a multiselect whose options differ from those of the
\* previous run is a new widget and takes its default
Sidebar ==
    /\ pc = "sidebar"
    /\ LET quarters == QuarterOptions(df_orig, selected.years)
           subs == SubCatOptions(df_orig, selected.categories)
       IN /\ all_quarters' = quarters
          /\ sub_cat_options' = subs
          /\ selected' = [selected EXCEPT
                 !.quarters = IF quarters = all_quarters THEN @ ELSE quarters,
                 !.sub_categories = IF subs = sub_cat_options THEN @ ELSE subs]
    /\ steps' = <<"sidebar">>
    /\ pc' = "filter"
    /\ UNCHANGED <<genvars, df_orig, df_filtered, filtered_is_orig, warning, interactions,
                   outvars>>

\* query_parts, df_filtered
FilterData ==
    /\ pc = "filter"
    /\ LET copy == CopyFrame(Query(df_orig, selected))
       IN /\ df_filtered' = copy.rows
          /\ filtered_is_orig' = copy.same
    /\ steps' = Append(steps, "filter")
    /\ pc' = "check"
    /\ UNCHANGED <<genvars, df_orig, selected, all_quarters, sub_cat_options, warning,
                   interactions, outvars>>

\* df_orig.empty
IsEmptyOrig(orig, filtered) == orig = <<>>

\* df_filtered.empty
IsEmpty(orig, filtered) == filtered = <<>>

\* st.warning(...); st.stop()
NoData ==
    /\ pc = "check"
    /\ IsEmpty(df_orig, df_filtered)
    /\ warning' = TRUE
    /\ steps' = Append(steps, "stop")
    /\ pc' = "stopped"
    /\ UNCHANGED <<genvars, df_orig, selected, all_quarters, sub_cat_options, df_filtered,
                   filtered_is_orig,
                   interactions, outvars>>

TabOverview ==
    /\ pc = "check"
    /\ ~IsEmpty(df_orig, df_filtered)
    /\ kpi' = Kpis(df_filtered)
    /\ steps' = Append(steps, "overview")
    /\ pc' = "regional"
    /\ UNCHANGED <<genvars, df_orig, selected, all_quarters, sub_cat_options, df_filtered,
                   filtered_is_orig,
                   warning, interactions, yoy_region_df, region_target_perf,
                   subcat_revenue, subcat_profit, sales_revenue, sales_profit, df_display>>

TabRegional ==
    /\ pc = "regional"
    /\ yoy_region_df' =
           RegionRatio(df_filtered, "PrevYearRevenue")
    /\ region_target_perf' =
           RegionRatio(df_filtered, "TargetRevenue")
    /\ steps' = Append(steps, "regional")
    /\ pc' = "product"
    /\ UNCHANGED <<genvars, df_orig, selected, all_quarters, sub_cat_options, df_filtered,
                   filtered_is_orig,
                   warning, interactions, kpi,
                   subcat_revenue, subcat_profit, sales_revenue, sales_profit, df_display>>

TabProduct ==
    /\ pc = "product"
    /\ subcat_revenue' =
           nlargest(GroupSum(df_filtered, "SubCategory", SubCategoryOrder, "Revenue"),
                    top_n_subcategories)
    /\ subcat_profit' =
           nlargest(GroupSum(df_filtered, "SubCategory", SubCategoryOrder, "Profit"),
                    top_n_subcategories)
    /\ steps' = Append(steps, "product")
    /\ pc' = "salesperson"
    /\ UNCHANGED <<genvars, df_orig, selected, all_quarters, sub_cat_options, df_filtered,
                   filtered_is_orig,
                   warning, interactions, kpi, yoy_region_df, region_target_perf,
                   sales_revenue, sales_profit, df_display>>

TabSalesperson ==
    /\ pc = "salesperson"
    /\ sales_revenue' =
           nlargest(GroupSum(df_filtered, "Salesperson", SalespersonOrder, "Revenue"),
                    top_n_salespersons)
    /\ sales_profit' =
           nlargest(GroupSum(df_filtered, "Salesperson", SalespersonOrder, "Profit"),
                    top_n_salespersons)
    /\ steps' = Append(steps, "salesperson")
    /\ pc' = "detailed"
    /\ UNCHANGED <<genvars, df_orig, selected, all_quarters, sub_cat_options, df_filtered,
                   filtered_is_orig,
                   warning, interactions, kpi, yoy_region_df, region_target_perf,
                   subcat_revenue, subcat_profit, df_display>>

\* for col in display_columns: if col not in frame.columns: frame[col] = np.nan
AddMissingColumns(frame) ==
    [i \in 1..Len(frame) |->
        IF display_columns \subseteq DOMAIN frame[i] THEN frame[i]
        ELSE [col \in (DOMAIN frame[i]) \cup display_columns |->
                 IF col \in DOMAIN frame[i] THEN frame[i][col] ELSE NaN]]

\* the columns are added to the object df_filtered names, which a frame that
\* is the same object sees as well
TabDetailedData ==
    /\ pc = "detailed"
    /\ df_filtered' = AddMissingColumns(df_filtered)
    /\ df_orig' = IF filtered_is_orig THEN AddMissingColumns(df_filtered) ELSE df_orig
    /\ df_display' = [i \in 1..Len(df_filtered) |->
                         [col \in display_columns |-> AddMissingColumns(df_filtered)[i][col]]]
    /\ steps' = Append(steps, "detailed")
    /\ pc' = "done"
    /\ UNCHANGED <<genvars, selected, all_quarters, sub_cat_options,
                   filtered_is_orig,
                   warning, interactions, kpi, yoy_region_df, region_target_perf,
                   subcat_revenue, subcat_profit, sales_revenue, sales_profit>>

\* the user removes one selected option, adds one unselected option or clears a
\* multiselect; the script is run again from the top
Interact ==
    /\ pc \in {"done", "stopped"}
    /\ interactions < MaxInteractions
    /\ \E dim \in Dims :
         \E value \in { selected[dim] \ {x} : x \in selected[dim] }
                   \cup { selected[dim] \cup {x} : x \in Options(dim) \ selected[dim] }
                   \cup { {} } :
            /\ value # selected[dim]
            /\ selected' = [selected EXCEPT ![dim] = value]
    /\ interactions' = interactions + 1
    /\ pc' = "sidebar"
    /\ df_filtered' = <<>>
    /\ filtered_is_orig' = FALSE
    /\ warning' = FALSE
    /\ steps' = <<>>
    /\ ClearedOutputs
    /\ UNCHANGED <<genvars, df_orig, all_quarters, sub_cat_options>>

Next ==
    \/ LoadData
    \/ Sidebar
    \/ FilterData
    \/ NoData
    \/ TabOverview
    \/ TabRegional
    \/ TabProduct
    \/ TabSalesperson
    \/ TabDetailedData
    \/ Interact

Spec == Init /\ [][Next]_vars

(* ------------------------ properties of the run ------------------------ *)
\* the run has executed this step
Ran(step) == \E i \in 1..Len(steps) : steps[i] = step

\* the value a record has in a dimension
DimValue(r, dim) ==
    CASE dim = "years" -> r.Date.y
      [] dim = "quarters" -> <<r.Date.y, 1 + (r.Date.m - 1) \div 3>>
      [] dim = "regions" -> r.Region
      [] dim = "categories" -> r.Category
      [] dim = "sub_categories" -> r.SubCategory
      [] dim = "salespersons" -> r.Salesperson

\* every value a dimension takes in the full data frame
FullDomain(dim) == { DimValue(df_orig[i], dim) : i \in 1..Len(df_orig) }

Rows(df) == { df[i] : i \in 1..Len(df) }

\* C1 as stated: once the filter has run with the selection of some dimension
\* empty, the filtered data frame is empty.
C1_EmptySelectionYieldsEmpty ==
    (Ran("filter") /\ \E dim \in Dims : selected[dim] = {}) => df_filtered = <<>>

\* C1, amended: an empty selection puts no restriction on its dimension.  Once
\* the filter has run with the selection of some dimension empty, a record of the
\* full data frame is in the filtered one exactly if, in every dimension whose
\* selection is not empty, its value is selected.
C1_EmptySelectionIsNoRestriction ==
    (Ran("filter") /\ \E dim \in Dims : selected[dim] = {}) =>
        \A i \in 1..Len(df_orig) :
            (df_orig[i] \in Rows(df_filtered)) <=>
            (\A dim \in Dims :
                selected[dim] = {} \/ DimValue(df_orig[i], dim) \in selected[dim])

\* the filter has run with one selection empty and another one restricting
C1_Witness ==
    /\ Ran("filter")
    /\ \E dim \in Dims : selected[dim] = {} /\ FullDomain(dim) # {}
    /\ df_filtered # <<>>
    /\ Len(df_filtered) < Len(df_orig)

\* C2: when every selection is the full option set of its dimension, the
\* filtered data frame is the full data frame, record for record in order.
C2_FullSelectionIsIdentity ==
    (Ran("filter") /\ \A dim \in Dims : selected[dim] = FullDomain(dim)) =>
        df_filtered = df_orig

\* the filter has run on full selections that the user came back to
C2_Witness ==
    /\ Ran("filter")
    /\ interactions > 0
    /\ \A dim \in Dims : selected[dim] = FullDomain(dim)
    /\ Len(df_orig) >= 2

\* C3: once the sidebar has run, every sub-category option belongs to one of
\* the selected categories, and every selected sub-category is an option.
C3_SubCategoryOptionsCascade ==
    (Ran("sidebar")) =>
        /\ \A sub \in sub_cat_options :
              \E cat \in selected.categories :
                 \E j \in 1..Len(product_categories_subs[cat]) :
                    product_categories_subs[cat][j] = sub
        /\ selected.sub_categories \subseteq sub_cat_options

\* the sidebar has run after the user narrowed the category selection
C3_Witness ==
    /\ Ran("sidebar")
    /\ interactions > 0
    /\ selected.categories # {}
    /\ selected.categories # FullDomain("categories")
    /\ sub_cat_options # {}
    /\ sub_cat_options # FullDomain("sub_categories")

AggregationSteps == {"overview", "regional", "product", "salesperson", "detailed"}

\* C4: when the filter yields no record the run shows the warning and stops,
\* nothing runs after the stop, and every aggregation step of a run has run on
\* a filtered data frame that is not empty.
C4_NoAggregationOnEmpty ==
    /\ (Ran("filter") /\ df_filtered = <<>> /\ pc # "check") =>
          (pc = "stopped" /\ warning /\ steps[Len(steps)] = "stop")
    /\ \A i \in 1..Len(steps) :
          /\ steps[i] \in AggregationSteps => (df_filtered # <<>> /\ ~warning)
          /\ steps[i] = "stop" => i = Len(steps)
    /\ (pc = "stopped" \/ warning) =>
          (df_filtered = <<>> /\ \A i \in 1..Len(steps) : steps[i] \notin AggregationSteps)

\* a run has stopped on an empty filtered data frame
C4_Witness == pc = "stopped" /\ warning /\ df_orig # <<>> /\ df_filtered = <<>>

\* no derived column of a record holds an infinity, and a ratio whose denominator
\* is zero or missing holds the missing-value marker
RecordRatiosOk(r) ==
    /\ ~IsInf(r.RevVsTarget) /\ ~IsInf(r.YoYGrowth) /\ ~IsInf(r.ProfitMargin)
    /\ r.TargetRevenue = 0 => IsNaN(r.RevVsTarget)
    /\ (IsNaN(r.PrevYearRevenue) \/ r.PrevYearRevenue.v = 0) => IsNaN(r.YoYGrowth)
    /\ r.Revenue = 0 => IsNaN(r.ProfitMargin)

RegionRows(region) == SelectSeq(df_filtered, LAMBDA r : r.Region = region)

\* the sum of a group's Previous Year Revenue, missing values left out
SumPrevYearRevenue(group) == Num(SumSkipNa(group, "PrevYearRevenue"))

\* the sum of a group's Target Revenue
SumTargetRevenue(group) == Num(SumInt(group, "TargetRevenue"))

\* every row shown of a per-region ratio frame holds a number, and no region
\* whose summed denominator is zero has a row
RegionRatiosOk(frame, Den(_)) ==
    /\ \A i \in 1..Len(frame) :
          /\ IsNum(frame[i].Pct)
          /\ Den(RegionRows(frame[i].Region)).v # 0
    /\ \A region \in Unique(df_filtered, "Region") :
          Den(RegionRows(region)).v = 0 =>
             \A i \in 1..Len(frame) : frame[i].Region # region

RatiosBelowKpiOk ==
    /\ \A i \in 1..Len(df_orig) : RecordRatiosOk(df_orig[i])
    /\ Ran("regional") =>
          /\ RegionRatiosOk(yoy_region_df, SumPrevYearRevenue)
          /\ RegionRatiosOk(region_target_perf, SumTargetRevenue)

\* C8 as stated: every ratio with a zero or missing denominator is the
\* missing-value marker, the two KPI ratios of the overview included.
C8_UndefinedRatioIsMissing ==
    /\ RatiosBelowKpiOk
    /\ Ran("overview") =>
          /\ SumSkipNa(df_filtered, "PrevYearRevenue") = 0 => IsNaN(kpi.yoy_growth_perc)
          /\ SumInt(df_filtered, "TargetRevenue") = 0 => IsNaN(kpi.revenue_vs_target_perc)

\* C8, amended: a per-record ratio with a zero or missing denominator is the
\* missing-value marker and never an infinity; a region whose summed denominator
\* is zero has no row in the per-region frames, whose rows all hold numbers; the
\* two KPI ratios are always numbers, and are 0 when their summed denominator
\* is zero.
C8_UndefinedRatioIsMissingOrZeroKpi ==
    /\ RatiosBelowKpiOk
    /\ Ran("overview") =>
          /\ IsNum(kpi.yoy_growth_perc)
          /\ IsNum(kpi.revenue_vs_target_perc)
          /\ SumSkipNa(df_filtered, "PrevYearRevenue") = 0 => kpi.yoy_growth_perc = Num(0)
          /\ SumInt(df_filtered, "TargetRevenue") = 0 => kpi.revenue_vs_target_perc = Num(0)

\* the regional tab has run on first-year and later records: a region was dropped
\* from the YoY frame, another was kept; or the overview ran on first-year records
C8_Witness ==
    /\ Ran("regional")
    /\ yoy_region_df # <<>>
    /\ \E region \in Unique(df_filtered, "Region") :
          /\ SumPrevYearRevenue(RegionRows(region)).v = 0
          /\ \A i \in 1..Len(yoy_region_df) : yoy_region_df[i].Region # region
    /\ \E i \in 1..Len(df_orig) : IsNaN(df_orig[i].YoYGrowth)

\* the rows of a per-region ratio frame are the regions of the filtered data
\* whose summed denominator is not zero, in key order, and each holds
\* (sum of Revenue / sum of denominator - 1) * 100 of its region
RegionFrameIsRatioOfSums(frame, Den(_)) ==
    LET kept == SelectSeq(RegionOrder,
                    LAMBDA region : /\ region \in Unique(df_filtered, "Region")
                                    /\ Den(RegionRows(region)).v # 0)
    IN /\ Len(frame) = Len(kept)
       /\ \A i \in 1..Len(frame) :
             LET num == SumInt(RegionRows(kept[i]), "Revenue")
                 den == Den(RegionRows(kept[i])).v
                 pct == frame[i].Pct
                 quotient == pct.v \div 100 + Scale
             IN /\ frame[i].Region = kept[i]
                /\ IsNum(pct)
                /\ pct.v % 100 = 0
                /\ quotient * den <= num * Scale
                /\ num * Scale < (quotient + 1) * den

\* C9: both per-region ratio frames hold, for every region whose summed
\* denominator is not zero and for no other, the ratio of the group sums.
C9_RegionRatioOfSums ==
    Ran("regional") =>
        /\ RegionFrameIsRatioOfSums(yoy_region_df, SumPrevYearRevenue)
        /\ RegionFrameIsRatioOfSums(region_target_perf, SumTargetRevenue)

\* the regional tab has run where one region has only first-year records and
\* another has a first-year and a later record
C9_Witness ==
    /\ Ran("regional")
    /\ Len(yoy_region_df) < Len(region_target_perf)
    /\ \E i \in 1..Len(yoy_region_df) :
          LET group == RegionRows(yoy_region_df[i].Region)
          IN /\ Len(group) >= 2
             /\ \E j \in 1..Len(group) : IsNaN(group[j].PrevYearRevenue)

\* the position of a key in the key order
KeyPos(order, key) == CHOOSE i \in 1..Len(order) : order[i] = key

\* a top-N frame: min(N, number of groups) rows, one group each with its sum,
\* no group left out larger than one kept, values non-increasing, equal values
\* in key order
TopNOk(frame, col, order, val, n) ==
    LET groups == Unique(df_filtered, col)
        total(key) == SumInt(SelectSeq(df_filtered, LAMBDA r : r[col] = key), val)
    IN /\ Len(frame) = Min(n, Cardinality(groups))
       /\ \A i \in 1..Len(frame) :
             /\ frame[i].key \in groups
             /\ frame[i].value = total(frame[i].key)
       /\ \A i, j \in 1..Len(frame) :
             i < j =>
                /\ frame[i].key # frame[j].key
                /\ frame[i].value >= frame[j].value
                /\ frame[i].value = frame[j].value =>
                      KeyPos(order, frame[i].key) < KeyPos(order, frame[j].key)
       /\ \A key \in groups :
             (\A i \in 1..Len(frame) : frame[i].key # key) =>
                \A i \in 1..Len(frame) : frame[i].value >= total(key)

C11_FullDatasetUnchanged ==
    [][(pc # "load" => df_orig' = df_orig) /\ ~filtered_is_orig']_vars

\* all five tabs have run, the detailed data tab last, on a filtered copy that
\* holds fewer records than the full data frame
C11_Witness ==
    /\ pc = "done"
    /\ Ran("detailed")
    /\ interactions > 0
    /\ df_display # <<>>
    /\ Len(df_filtered) < Len(df_orig)

\* the records of a group that have a Previous Year Revenue
WithPrevYear(group) == SelectSeq(group, LAMBDA r : IsNum(r.PrevYearRevenue))

\* pct is (sum of Revenue / sum of Previous Year Revenue - 1) * 100 over the
\* records of the group that have a Previous Year Revenue
IsYoYOfSameRecords(pct, group) ==
    LET num == SumInt(WithPrevYear(group), "Revenue")
        den == SumSkipNa(WithPrevYear(group), "PrevYearRevenue")
        quotient == pct.v \div 100 + Scale
    IN /\ IsNum(pct)
       /\ pct.v % 100 = 0
       /\ quotient * den <= num * Scale
       /\ num * Scale < (quotient + 1) * den

\* C12: the YoY growth of every region shown and the YoY growth KPI divide the
\* Revenue and the Previous Year Revenue of the same records, those that have
\* a Previous Year Revenue; first-year records count in neither sum.
C12_YoYSumsSameRecords ==
    /\ Ran("regional") =>
          \A i \in 1..Len(yoy_region_df) :
             IsYoYOfSameRecords(yoy_region_df[i].Pct, RegionRows(yoy_region_df[i].Region))
    /\ (Ran("overview") /\ SumSkipNa(df_filtered, "PrevYearRevenue") # 0) =>
          IsYoYOfSameRecords(kpi.yoy_growth_perc, df_filtered)

(* ===================== the generator on its own ======================== *)
MaxCalls == 3

MaxDraws == 1

GenInit ==
    /\ rng = 0
    /\ results = [k \in Keys |-> None]
    /\ calls = [k \in Keys |-> 0]
    /\ ncalls = 0
    /\ ndraws = 0
    /\ pc = "idle"
    /\ IdleApp

\* a call generate_enhanced_sales_data(start, end, seed) that runs the body
Generate(k) ==
    /\ ncalls < MaxCalls
    /\ LET out == generate_enhanced_sales_data(StartOf(k), EndOf(k), k[2], rng)
       IN /\ results' = [results EXCEPT ![k] = out.df]
          /\ rng' = out.s
    /\ calls' = [calls EXCEPT ![k] = @ + 1]
    /\ ncalls' = ncalls + 1
    /\ UNCHANGED <<ndraws, appvars, outvars>>

\* any other draw from the global generator between two calls
OtherDraw ==
    /\ ndraws < MaxDraws
    /\ rng' = NextState(rng)
    /\ ndraws' = ndraws + 1
    /\ UNCHANGED <<results, calls, ncalls, appvars, outvars>>

GenNext == (\E k \in Keys : Generate(k)) \/ OtherDraw

SpecGen == GenInit /\ [][GenNext]_vars

(* ---------------------- properties of the generator -------------------- *)
\* C5: a call with arguments that were used before returns the records the
\* earlier call returned, whatever was called or drawn in between.
C5_GenerateDeterministic ==
    [][\A k \in Keys :
          (results[k] # None /\ calls'[k] # calls[k]) => results'[k] = results[k]]_vars

\* one argument tuple was used twice, another once, and there were other draws
C5_Witness ==
    \E k, j \in Keys :
        /\ k # j
        /\ calls[k] = 2
        /\ calls[j] = 1
        /\ ndraws >= 1
        /\ Len(results[k]) >= 2

\* C6: Previous Year Revenue of a generated record is missing exactly if the
\* record's year is the start date's year, and is a positive number in every
\* later year.
C6_PrevYearMissingIffFirstYear ==
    \A k \in Keys :
       \A i \in 1..Len(results[k]) :
          LET r == results[k][i]
              start == StartOf(k)
          IN /\ IsNaN(r.PrevYearRevenue) <=> r.Date.y = start.y
             /\ r.Date.y > start.y => (IsNum(r.PrevYearRevenue) /\ r.PrevYearRevenue.v > 0)

\* a call has returned records of the start year and of the year after
C6_Witness ==
    \E k \in Keys :
       /\ \E i \in 1..Len(results[k]) : results[k][i].Date.y = StartOf(k).y
       /\ \E i \in 1..Len(results[k]) : results[k][i].Date.y > StartOf(k).y

\* C7: every generated record has Units Sold >= 1, Revenue > 0 and
\* Target Revenue > 0.
C7_PositiveFacts ==
    \A k \in Keys :
       \A i \in 1..Len(results[k]) :
          LET r == results[k][i]
          IN r.UnitsSold >= 1 /\ r.Revenue > 0 /\ r.TargetRevenue > 0

\* a call has returned a record whose revenue is below the lowest unit price, so
\* that revenue / price is below 1
C7_Witness ==
    \E k \in Keys :
       \E i \in 1..Len(results[k]) :
          /\ results[k][i].Revenue < 10 * Scale
          /\ results[k][i].UnitsSold = 1

====
